---- MODULE Spec2Model ----
(***************************************************************************)
(* The recursive crawl engine of mcp-doc-retriever,                        *)
(* start_recursive_download (_archive/downloader.py.original, 175-524),    *)
(* as a state machine: one coroutine that canonicalises the start URL,     *)
(* then repeatedly dequeues a (url, depth) pair, runs the pre-download     *)
(* checks, calls a fetcher, appends an index record and enqueues the       *)
(* links of the page.  The helpers the engine imports (canonicalize_url,   *)
(* url_to_local_path, the SSRF guard, the robots check, the fetchers) are  *)
(* the environment: their results are drawn from small sets.               *)
(***************************************************************************)
EXTENDS Naturals, Sequences, FiniteSets, Integers

\* ---------------------------------------------------------------- bounds
\* Longest download id.
MaxIdLen == 2
\* Most jobs the job manager admits besides the one whose crawl is followed.
MaxJobs == 2
\* The documents of the collection that hybrid_search ranks.
NumKeys == 3
\* Largest initial_k: the most candidates a search type returns.
MaxCandidates == 2
\* Largest top_n of a hybrid search.
MaxTopN == 2
\* The capacity a bounded work queue would have, scaled to the model.
QueueCapacity == 1
\* Number of distinct paths on a host (path 1 is "/").
NumPaths == 3
\* Largest value of the depth argument.
MaxDepth == 2
\* Longest detected_links list a fetcher returns.
MaxLinks == 2

Paths == 1..NumPaths

\* ------------------------------------------------------------------ URLs
\* A host as written in a URL: name, letter case, port (0 = no port given).
NoHost == [name |-> "", upper |-> FALSE, port |-> 0]
ExHost == [name |-> "ex.test", upper |-> FALSE, port |-> 0]
ExHostUpperPort == [name |-> "ex.test", upper |-> TRUE, port |-> 80]
ExHostAltPort == [name |-> "ex.test", upper |-> FALSE, port |-> 8080]
OtherHost == [name |-> "other.test", upper |-> FALSE, port |-> 0]
BadHost == [name |-> "[", upper |-> FALSE, port |-> 0]

\* A URL as written: scheme ("" = relative reference), host, path, fragment.
RawUrl(s, h, p, f) == [scheme |-> s, host |-> h, path |-> p, frag |-> f]

\* canonicalize_url raises on a URL it cannot parse.
CanonRaises(raw) == raw.host.name = "["

\* canonicalize_url: host lowercased, default port stripped, fragment removed.
CanonHost(h) ==
  [name |-> h.name, upper |-> FALSE, port |-> IF h.port = 80 THEN 0 ELSE h.port]

canonicalize_url(raw) == [host |-> CanonHost(raw.host), path |-> raw.path]

\* urlparse(url).netloc of a canonical URL.
netloc(url) == url.host

\* urljoin(base, link): a relative reference takes scheme and host of base.
urljoin(base, link) ==
  IF link.scheme = "" /\ link.host = NoHost
  THEN RawUrl("http", base.host, link.path, link.frag)
  ELSE link

\* url_to_local_path: a path under the content root, never empty.
url_to_local_path(url) == <<"content", url.host.name, url.host.port, url.path>>

\* The canonical URLs of the model.
CanonHosts == {ExHost, ExHostAltPort, OtherHost, NoHost}
AllCanon == [host : CanonHosts, path : Paths]

\* The start_url arguments: an absolute URL (upper-case host, default port,
\* fragment), one without authority, one that does not parse.
StartInputs ==
  { RawUrl("http", ExHostUpperPort, 1, 1),
    RawUrl("", NoHost, 1, 0),
    RawUrl("http", BadHost, 1, 0) }

\* The hrefs a page can hold: a relative link to every path, an absolute
\* spelling of path 2 that differs in case, port and fragment, two links to
\* other authorities, a mailto link and one that does not parse.
RawLinks ==
  { RawUrl("", NoHost, p, 0) : p \in Paths }
  \cup { RawUrl("http", ExHostUpperPort, 2, 1),
         RawUrl("http", OtherHost, 1, 0),
         RawUrl("http", ExHostAltPort, 1, 0),
         RawUrl("mailto", NoHost, 1, 0),
         RawUrl("http", BadHost, 1, 0) }

\* ----------------------------------------------------------------- state
VARIABLES
  pc,              \* position of the background task: the worker of the job
                   \* manager and, inside it, start_recursive_download
  job_status,      \* status of the job's record in the task store
  download_id,     \* argument
  force,           \* argument: overwrite existing files
  use_playwright,  \* argument: fetcher to use
  start_url,       \* argument
  depth,           \* argument: maximum recursion depth
  queue,           \* asyncio.Queue of <<canonical url, depth>>
  unfinished,      \* the queue's count of items put and not yet task_done
  visited,         \* set of canonical URLs
  start_domain,    \* netloc of the canonical start URL
  cur,             \* current_canonical_url, current_depth (<<>> when idle)
  local_path,      \* mapped path of the current URL
  result,          \* what the fetcher call produced: "dict", "none", "raise"
  status_from_result, \* result.get("status")
  content_md5,     \* result.get("content_md5")
  target_exists,   \* what the fetcher's no-clobber test found at local_path
  js_shell,        \* the body of the result looks like a JavaScript shell
  redirect,        \* where the redirect chain of the request ended
  sem_http,        \* holders of the semaphore of the requests fetcher
  sem_browser,     \* holders of the semaphore of the Playwright fetcher
  fetch_status,
  final_local_path,
  detected_links,  \* len(detected_links); the links themselves are drawn
                   \* one by one as the for loop of 475 reaches them
  link_i,          \* how many links the for loop has taken
  link,            \* the loop variable of the for loop (NoLink outside it)
  index,           \* the lines of the job's index file
  hist,            \* history: per canonical URL, what was done with it
  cancel_token,    \* the job's cancellation token in the job manager
  search_resp,     \* the last search request and the response it got
  other_jobs,      \* the records of the other jobs the job manager admitted
  submit_resp,     \* the last submission and the response it got
  hybrid_resp      \* the last call of hybrid_search and what it returned

\* The arguments of the job: no step changes them.
args == <<download_id, force, use_playwright>>

\* What only the fetcher call and the end of an iteration change.
fetch_vars == <<status_from_result, content_md5, target_exists, js_shell,
                redirect, sem_http, sem_browser>>

\* What the services around the crawl hold: no step of the worker or of the
\* engine changes it.
svc_vars == <<cancel_token, search_resp, other_jobs, submit_resp, hybrid_resp>>

vars == <<svc_vars, pc, job_status, args, start_url, depth, queue, unfinished, visited,
          start_domain, cur, local_path, result, fetch_vars, fetch_status,
          final_local_path, detected_links, link_i, link, index, hist>>

EmptyPath == <<>>
NoLink == <<>>
Idle == <<>>

\* History of one URL: how often it was enqueued, dequeued and passed to a
\* fetcher, what the SSRF guard and the robots check answered for it ("" =
\* not called), whether the path mapper was called, whether a fetcher saved
\* its body, how the append of its index record went ("" = none tried, "ok",
\* "failed") and the path its processing took ("" while it has not finished).
NoHistory ==
  [enq |-> 0, deq |-> 0, fetched |-> 0, ssrf |-> "", robots |-> "",
   mapped |-> FALSE, saved |-> FALSE, append |-> "", outcome |-> ""]

\* hist maps the URLs something was done with; H(u) is the history of u.
H(u) == IF u \in DOMAIN hist THEN hist[u] ELSE NoHistory

\* hist with the history of u replaced by r.
HistSet(u, r) ==
  [v \in (DOMAIN hist) \cup {u} |-> IF v = u THEN r ELSE hist[v]]

\* A download id is a string, kept as the sequence of its characters.
IdChars == {"a", "_", "/"}

\* The ids of length up to MaxIdLen.
JobIds == UNION { [1..n -> IdChars] : n \in 0..MaxIdLen }

\* Line 221: the characters that re.sub leaves in a download id.
SafeIdChars == {"a", "_", "-", "."}

\* Mutant of safe_download_id: no character is replaced.
SafeDownloadIdUnsanitised(id) ==
  IF id = <<>> THEN <<"default_download">> ELSE id

\* Lines 219-226: every other character becomes "_", and an empty id becomes
\* "default_download" (kept as one element, which re.sub leaves alone as it
\* leaves each of its characters).
safe_download_id(id) ==
  IF id = <<>>
  THEN <<"default_download">>
  ELSE [i \in 1..Len(id) |->
          IF id[i] \in SafeIdChars \cup {"default_download"}
          THEN id[i] ELSE "_"]

\* Mutant of index_path: one index file for all jobs.
IndexPathShared(id) == <<"index", <<"default_download">>, ".jsonl">>

\* Line 227: index_path = <index_dir>/<safe_download_id>.jsonl
index_path(id) == <<"index", safe_download_id(id), ".jsonl">>

\* The arguments a job is admitted with: download_id as the caller gave it
\* (a clean id, one with a character the engine replaces), force and
\* use_playwright (both false, both true).
JobInputs ==
  { [id |-> <<"a", "/">>, force |-> FALSE, use_playwright |-> FALSE],
    [id |-> <<"a", "a">>, force |-> TRUE, use_playwright |-> TRUE] }

\* No content hash (content_md5 = None).
NoHash == ""

\* The job manager creates the record of an admitted job with this status.
StatusAtAdmission == "pending"

\* The request was answered by the URL itself.
NoRedirect == "none"

\* The redirect chains the shared client follows (follow_redirects=True, 261):
\* none, one that ends on the authority of the URL, one that ends on another
\* authority.
RedirectChains == {NoRedirect, "inside", "outside"}

\* No job has been submitted since the job whose crawl is followed.
NoSubmit == [status |-> "none"]

\* hybrid_search has not been called.
NoHybrid == [status |-> "none"]

\* No search request has been made.
NoSearch == [status |-> "none"]

\* A token nobody has cancelled.  dequeued keeps how many URLs the engine
\* had taken from the queue when the token was cancelled.
NotCancelled == [cancelled |-> FALSE, dequeued |-> 0]

Init ==
  /\ pc = "admitted"
  /\ job_status = StatusAtAdmission
  /\ \E j \in JobInputs :
       /\ download_id = j.id
       /\ force = j.force
       /\ use_playwright = j.use_playwright
  /\ status_from_result = "unset"
  /\ content_md5 = NoHash
  /\ target_exists = FALSE
  /\ js_shell = FALSE
  /\ redirect = NoRedirect
  /\ sem_http = 0
  /\ sem_browser = 0
  /\ start_url \in StartInputs
  /\ depth \in 0..MaxDepth
  /\ queue = <<>>
  /\ unfinished = 0
  /\ visited = {}
  /\ start_domain = NoHost
  /\ cur = Idle
  /\ local_path = EmptyPath
  /\ result = "unset"
  /\ fetch_status = "unset"
  /\ final_local_path = EmptyPath
  /\ detected_links = 0
  /\ link_i = 0
  /\ link = NoLink
  /\ index = <<>>
  /\ hist = [u \in {} |-> NoHistory]
  /\ cancel_token = NotCancelled
  /\ search_resp = NoSearch
  /\ other_jobs = {}
  /\ submit_resp = NoSubmit
  /\ hybrid_resp = NoHybrid

\* The worker writes this status when it starts.
StatusAtStart == "running"

\* The background worker of the job starts: it marks the job running and
\* calls the engine.
WorkerStart ==
  /\ pc = "admitted"
  /\ job_status' = StatusAtStart
  /\ pc' = "start"
  /\ UNCHANGED <<svc_vars, args, fetch_vars, start_url, depth, queue, unfinished,
                 visited, start_domain, cur, local_path, result, fetch_status,
                 final_local_path, detected_links, link_i, link, index, hist>>

\* Mutant of PutBlocks: a queue made with maxsize QueueCapacity, whose put
\* waits while the queue is full.
PutBlocksWhenFull(q) == Len(q) >= QueueCapacity

\* Line 231: asyncio.Queue() has maxsize 0, so it is never full and
\* "await queue.put" never waits.
PutBlocks(q) == FALSE

\* Mutant of QueuePut: a queue of QueueCapacity items that takes no more.
QueuePutBounded(q, item) ==
  IF Len(q) >= QueueCapacity THEN q ELSE Append(q, item)

\* queue.put(item) on the unbounded asyncio.Queue.
QueuePut(q, item) == Append(q, item)

\* Lines 235-237: canonicalise the start URL and enqueue it at depth 0; a
\* URL that does not parse aborts the download (245-248).
StartPut ==
  /\ pc = "start"
  /\ ~PutBlocks(queue)
  /\ IF CanonRaises(start_url)
     THEN /\ pc' = "aborted"
          /\ UNCHANGED <<queue, unfinished, hist>>
     ELSE LET c == canonicalize_url(start_url) IN
          /\ queue' = QueuePut(queue, <<c, 0>>)
          /\ unfinished' = unfinished + 1
          /\ hist' = HistSet(c, [H(c) EXCEPT !.enq = @ + 1])
          /\ pc' = "start_visit"
  /\ UNCHANGED <<svc_vars, args, job_status, fetch_vars,
                 start_url, depth, visited, start_domain, cur, local_path,
                 result, fetch_status, final_local_path, detected_links,
                 link_i, link, index>>

\* Mutant of StartAborts: the test of 240 is missing.
StartAbortsNever(dom) == FALSE

\* Lines 240-241: a start URL without a netloc raises ValueError, which 245-248
\* turn into a return.
StartAborts(dom) == dom = NoHost

\* Lines 238-248: add the start URL to visited, take its netloc as the start
\* domain; an empty netloc aborts the download.
StartVisit ==
  /\ pc = "start_visit"
  /\ LET c == canonicalize_url(start_url) IN
     /\ visited' = visited \cup {c}
     /\ start_domain' = netloc(c)
     /\ pc' = IF StartAborts(netloc(c)) THEN "aborted" ELSE "client"
  /\ UNCHANGED <<svc_vars, args, job_status, fetch_vars,
                 start_url, depth, queue, unfinished, cur, local_path, result,
                 fetch_status, final_local_path, detected_links, link_i, link,
                 index, hist>>

\* Lines 250-261: the robots cache, the timeouts and the shared httpx client
\* are set up outside any try block: an exception here leaves the engine.
OpenClient ==
  /\ pc = "client"
  /\ \E client_ok \in BOOLEAN : pc' = IF client_ok THEN "loop" ELSE "raised"
  /\ UNCHANGED <<svc_vars, args, job_status, fetch_vars, start_url, depth, queue,
                 unfinished, visited, start_domain, cur, local_path, result,
                 fetch_status, final_local_path, detected_links, link_i, link,
                 index, hist>>

\* Line 263: the loop runs while the queue holds an item.
LoopContinues(q) == q # <<>>

\* Lines 263-265: take the next (url, depth) pair from the queue.
Dequeue ==
  /\ pc = "loop"
  /\ LoopContinues(queue)
  /\ cur' = Head(queue)
  /\ queue' = Tail(queue)
  /\ hist' = HistSet(Head(queue)[1],
                      [H(Head(queue)[1]) EXCEPT !.deq = @ + 1])
  /\ pc' = "precheck"
  /\ UNCHANGED <<svc_vars, args, job_status, fetch_vars,
                 start_url, depth, unfinished, visited, start_domain,
                 local_path, result, fetch_status, final_local_path,
                 detected_links, link_i, link, index>>

\* IndexRecord(...): the fields of a record that the engine sets itself.
IndexRecord(url, path, status, md5) ==
  [canonical_url |-> url, local_path |-> path, fetch_status |-> status,
   content_md5 |-> md5]

\* Mutant of AppendRecord: the record is written at the front of the file.
AppendRecordFront(idx, rec, write_ok) ==
  IF write_ok THEN <<rec>> \o idx ELSE idx

\* Mutant of AppendRecord: the file is opened with "w" and loses its rows.
AppendRecordOverwriting(idx, rec, write_ok) ==
  IF write_ok THEN <<rec>> ELSE idx

\* aiofiles.open(index_path, "a") + write inside try/except: a failed write
\* is logged and leaves the file as it was.
AppendRecord(idx, rec, write_ok) == IF write_ok THEN Append(idx, rec) ELSE idx

\* Mutant of TaskDoneCount: the item is not marked done.
TaskDoneForgotten(n) == n

\* Mutant of TaskDoneCount: the item is marked done twice.
TaskDoneTwice(n) == n - 2

\* queue.task_done()
TaskDoneCount(n) == n - 1

\* Mutant of PreCheckPath: a robots denial does not stop the URL.
PreCheckPathRobotsIgnored(url, dom, ssrf, robots, map) ==
  IF ssrf = "private" THEN "failed_ssrf"
  ELSE IF netloc(url) # dom THEN "off_domain"
  ELSE IF robots = "raise" THEN "error_robots"
  ELSE IF map = "raise" THEN "error_map"
  ELSE "fetch"

\* Mutant of PreCheckPath: the SSRF guard is not consulted.
PreCheckPathSsrfIgnored(url, dom, ssrf, robots, map) ==
  IF netloc(url) # dom THEN "off_domain"
  ELSE IF robots = "raise" THEN "error_robots"
  ELSE IF robots = "denied" THEN "failed_robotstxt"
  ELSE IF map = "raise" THEN "error_map"
  ELSE "fetch"

\* Lines 271-332: where the pre-download checks of one URL end.  ssrf is the
\* answer of is_url_private_or_internal, robots and map are what
\* _is_allowed_by_robots and url_to_local_path do for the URL (a result or an
\* exception, which 326-332 catch).
PreCheckPath(url, dom, ssrf, robots, map) ==
  IF ssrf = "private" THEN "failed_ssrf"
  ELSE IF netloc(url) # dom THEN "off_domain"
  ELSE IF robots = "raise" THEN "error_robots"
  ELSE IF robots = "denied" THEN "failed_robotstxt"
  ELSE IF map = "raise" THEN "error_map"
  ELSE "fetch"

\* The pre-check paths that write an index record (275-288, 305-318).
PreCheckRecords == {"failed_ssrf", "failed_robotstxt"}

\* Mutant of ContinueLoop: "break" in the place of "continue".
BreakLoop == "join"

\* Lines 289-290, 298-299, 319-320, 331-332: "continue" takes the coroutine
\* back to the loop test.
ContinueLoop == "loop"

AppendResult(write_ok) == IF write_ok THEN "ok" ELSE "failed"

\* Lines 271-332, the whole try block: SSRF guard, domain restriction,
\* robots check, path mapping.  Every path but "fetch" ends in task_done and
\* continue; the two policy denials first append an index record.
PreCheck ==
  /\ pc = "precheck"
  /\ \E write_fails \in BOOLEAN,
        ssrf \in {"public", "private"},
        robots \in {"allowed", "denied", "raise"},
        map \in {"ok", "raise"} :
       LET u == cur[1]
           path == PreCheckPath(u, start_domain, ssrf, robots, map)
           robots_called == ssrf = "public" /\ netloc(u) = start_domain
           map_called == robots_called /\ robots = "allowed"
       IN
       /\ index' = IF path \in PreCheckRecords
                   THEN AppendRecord(index,
                                     IndexRecord(u, EmptyPath, path, NoHash),
                                     ~write_fails)
                   ELSE index
       /\ hist' = HistSet(u,
                     [H(u) EXCEPT
                        !.ssrf = ssrf,
                        !.robots = IF robots_called THEN robots ELSE @,
                        !.mapped = @ \/ map_called,
                        !.append = IF path \in PreCheckRecords
                                   THEN AppendResult(~write_fails) ELSE @,
                        !.outcome = IF path = "fetch" THEN @ ELSE path])
       /\ IF path = "fetch"
          THEN /\ local_path' = url_to_local_path(u)
               /\ pc' = "fetch"
               /\ UNCHANGED <<unfinished, cur>>
          ELSE /\ unfinished' = TaskDoneCount(unfinished)
               /\ cur' = Idle
               /\ pc' = ContinueLoop
               /\ UNCHANGED local_path
  /\ UNCHANGED <<svc_vars, args, job_status, fetch_vars,
                 start_url, depth, queue, visited, start_domain, result,
                 fetch_status, final_local_path, detected_links, link_i, link>>

\* MD5 of the file the no-clobber test found, and of a body just fetched.
ExistingHash == "md5_existing"
BodyHash == "md5_body"

\* Lines 357-369: the fetcher the flag selects.
Fetcher(playwright) == IF playwright THEN "playwright" ELSE "requests"

\* A result dict of a fetcher.
ResultDict(s, n, md5, js) ==
  [kind |-> "dict", status |-> s, links |-> n, content_md5 |-> md5,
   js_shell |-> js]

\* What a fetcher call can produce: a result dict, None, or an exception.
\* skip: force is false and the target file exists, so the fetcher leaves
\* the file alone and reports its hash (no-clobber).  Otherwise it fetches:
\* a saved body (with the links it holds; a body the requests fetcher got
\* can be a JavaScript shell, which has no links), or one of the failures.
FetcherResults(fetcher, skip) ==
  ( IF skip
    THEN { ResultDict("skipped", n, ExistingHash, FALSE) : n \in 0..MaxLinks }
    ELSE { ResultDict("success", n, BodyHash, FALSE) : n \in 0..MaxLinks }
         \cup ( IF fetcher = "requests"
                THEN { ResultDict("success", 0, BodyHash, TRUE) } ELSE {} )
         \cup { ResultDict(s, 0, NoHash, FALSE) :
                  s \in {"failed_paywall", "failed", "failed_toobig"} } )
  \cup { [kind |-> k, status |-> "", links |-> 0, content_md5 |-> NoHash,
          js_shell |-> FALSE] : k \in {"none", "raise"} }

\* Mutant of MapStatus: the branch of 385-394 for "skipped" is missing.
MapStatusSkippedDropped(status) ==
  IF status \in {"success", "failed_paywall"} THEN status ELSE "failed_request"

\* Mutant of MapStatus: every status of the fetcher is passed through.
MapStatusPassedThrough(status) == status

\* Lines 382-409: the fetcher's status mapped to the IndexRecord status.
MapStatus(status) ==
  IF status \in {"success", "skipped", "failed_paywall"}
  THEN status
  ELSE "failed_request"

\* The semaphores of utils that bound the calls of each fetcher.
SemHttp == 10
SemBrowser == 2

\* Mutant of SemRelease: the semaphore is kept after the fetch.
SemReleaseForgotten(n) == n

SemAcquire(n) == n + 1
SemRelease(n) == n - 1

\* Lines 334-369: the locals are set to their defaults (335-343) and the
\* fetcher the flag selects is called; the call takes the semaphore of its
\* fetcher for as long as it runs.
FetchCall ==
  /\ pc = "fetch"
  /\ IF Fetcher(use_playwright) = "playwright"
     THEN /\ sem_browser < SemBrowser
          /\ sem_browser' = SemAcquire(sem_browser)
          /\ UNCHANGED sem_http
     ELSE /\ sem_http < SemHttp
          /\ sem_http' = SemAcquire(sem_http)
          /\ UNCHANGED sem_browser
  /\ pc' = "fetching"
  /\ UNCHANGED <<svc_vars, args, job_status, status_from_result, content_md5,
                 target_exists, js_shell, redirect, start_url, depth, queue, unfinished,
                 visited, start_domain, cur, local_path, result, fetch_status,
                 final_local_path, detected_links, link_i, link, index, hist>>

\* Lines 357-432: the fetcher call ends and its result is mapped; a None
\* result (415-421) and an exception (423-432) give failed_request.  exists
\* is what the fetcher's no-clobber test finds at local_path; with force the
\* test is not made.  chain is where the redirects the client followed
\* ended: the fetcher gets no start domain (349-354) and its result has no
\* final URL (376-380), so the result does not depend on it.
FetchOf(chains) ==
  /\ \E exists \in (IF force THEN {FALSE} ELSE BOOLEAN) :
     \E r \in FetcherResults(Fetcher(use_playwright), exists) :
     \E chain \in chains :
       /\ chain # NoRedirect => r.kind = "dict" /\ r.status # "skipped"
       /\ redirect' = chain
       /\ result' = r.kind
       /\ target_exists' = exists
       /\ status_from_result' = IF r.kind = "dict" THEN r.status ELSE "unset"
       /\ content_md5' = r.content_md5
       /\ js_shell' = r.js_shell
       /\ fetch_status' =
            IF r.kind = "dict" THEN MapStatus(r.status) ELSE "failed_request"
       /\ final_local_path' =
            IF r.kind = "dict" /\ r.status = "success"
            THEN local_path ELSE EmptyPath
       /\ detected_links' = r.links
       /\ hist' = HistSet(cur[1],
                     [H(cur[1]) EXCEPT
                        !.fetched = @ + 1,
                        !.saved = @ \/ (r.kind = "dict"
                                        /\ r.status = "success")])
  /\ IF Fetcher(use_playwright) = "playwright"
     THEN sem_browser' = SemRelease(sem_browser) /\ UNCHANGED sem_http
     ELSE sem_http' = SemRelease(sem_http) /\ UNCHANGED sem_browser
  /\ pc' = "write"
  /\ UNCHANGED <<svc_vars, args, job_status, start_url, depth, queue, unfinished,
                 visited, start_domain, cur, local_path, link_i, link, index>>

\* The fetcher call ends; the server answered without a redirect.
Fetch ==
  /\ pc = "fetching"
  /\ FetchOf({NoRedirect})

\* The fetcher call ends; the server answered with a redirect chain.
FetchRedirected ==
  /\ pc = "fetching"
  /\ FetchOf(RedirectChains \ {NoRedirect})

\* Mutant of RecordLocalPath: the test of 440 is inverted.
RecordLocalPathInverted(final, status) ==
  IF status # "success" THEN final ELSE EmptyPath

\* Lines 439-441: local_path of the record.
RecordLocalPath(final, status) == IF status = "success" THEN final ELSE EmptyPath

\* Line 446: result.get("code_snippets") needs result to be a dict; on None
\* it raises AttributeError inside the try of 435, which 456 catches.
RecordBuilt(res) == res = "dict"

\* Lines 434-463: build the IndexRecord and append it to the index file.  An
\* exception in building or writing it is logged and swallowed.
WriteIndex ==
  /\ pc = "write"
  /\ \E write_fails \in BOOLEAN :
       IF RecordBuilt(result)
       THEN /\ index' = AppendRecord(index,
                           IndexRecord(cur[1],
                             RecordLocalPath(final_local_path, fetch_status),
                             fetch_status, content_md5),
                           ~write_fails)
            /\ hist' = HistSet(cur[1],
                          [H(cur[1]) EXCEPT
                             !.append = AppendResult(~write_fails)])
       ELSE UNCHANGED <<index, hist>>
  /\ pc' = "recurse"
  /\ UNCHANGED <<svc_vars, args, job_status, fetch_vars,
                 start_url, depth, queue, unfinished, visited, start_domain,
                 cur, local_path, result, fetch_status, final_local_path,
                 detected_links, link_i, link>>

\* Mutant of ShouldRecurse: the links of a skipped page are followed too.
ShouldRecurseAlsoSkipped(status, current_depth, max_depth) ==
  status \in {"success", "skipped"} /\ current_depth < max_depth

\* Mutant of ShouldRecurse: the depth limit is taken one too low.
ShouldRecurseShallow(status, current_depth, max_depth) ==
  status = "success" /\ current_depth + 1 < max_depth

\* Line 466: links are followed from a successful page below the depth limit.
ShouldRecurse(status, current_depth, max_depth) ==
  status = "success" /\ current_depth < max_depth

\* Lines 465-475, 512-515: enter the loop over detected_links or skip it.
Recurse ==
  /\ pc = "recurse"
  /\ pc' = IF ShouldRecurse(fetch_status, cur[2], depth)
           THEN "for_link" ELSE "task_done"
  /\ UNCHANGED <<svc_vars, args, job_status, fetch_vars,
                 start_url, depth, queue, unfinished, visited, start_domain,
                 cur, local_path, result, fetch_status, final_local_path,
                 detected_links, link_i, link, index, hist>>

\* Line 475: the for loop takes the next link of the page, or ends (518).
\* The list is read once, front to back, so the link at each position is
\* drawn here instead of at the fetch.
ForLink ==
  /\ pc = "for_link"
  /\ IF link_i < detected_links
     THEN /\ link' \in RawLinks
          /\ link_i' = link_i + 1
          /\ pc' = "link_visit"
     ELSE /\ link' = NoLink
          /\ link_i' = link_i
          /\ pc' = "task_done"
  /\ UNCHANGED <<svc_vars, args, job_status, fetch_vars,
                 start_url, depth, queue, unfinished, visited, start_domain,
                 cur, local_path, result, fetch_status, final_local_path,
                 detected_links, index, hist>>

\* Mutant of ShouldEnqueue: the visited test is left out.
ShouldEnqueueAnyVisited(canon_link, dom, vis) == netloc(canon_link) = dom

\* Mutant of ShouldEnqueue: the domain test is left out.
ShouldEnqueueAnyDomain(canon_link, dom, vis) == canon_link \notin vis

\* Line 492: a link is enqueued when it is on the start domain and new.
ShouldEnqueue(canon_link, dom, vis) ==
  netloc(canon_link) = dom /\ canon_link \notin vis

\* Lines 477-492: the link is made absolute, filtered by scheme and
\* canonicalised; an exception on the way (506-511) skips the link.
LinkAccepted(base, l, dom, vis) ==
  LET abs_link == urljoin(base, l) IN
  /\ ~CanonRaises(abs_link)
  /\ abs_link.scheme \in {"http", "https"}
  /\ ShouldEnqueue(canonicalize_url(abs_link), dom, vis)

\* canon_link of the link the for loop stands at.
CanonLink == canonicalize_url(urljoin(cur[1], link))

\* Lines 476-495: one link of the page: skip it, or add it to visited.
LinkVisit ==
  /\ pc = "link_visit"
  /\ IF LinkAccepted(cur[1], link, start_domain, visited)
     THEN /\ visited' = visited \cup {CanonLink}
          /\ pc' = "link_put"
     ELSE /\ visited' = visited
          /\ pc' = "for_link"
  /\ UNCHANGED <<svc_vars, args, job_status, fetch_vars,
                 start_url, depth, queue, unfinished, start_domain, cur,
                 local_path, result, fetch_status, final_local_path,
                 detected_links, link_i, link, index, hist>>

\* Line 499: enqueue the link at depth + 1 and go on with the for loop.
LinkPut ==
  /\ pc = "link_put"
  /\ ~PutBlocks(queue)
  /\ queue' = QueuePut(queue, <<CanonLink, cur[2] + 1>>)
  /\ unfinished' = unfinished + 1
  /\ hist' = HistSet(CanonLink, [H(CanonLink) EXCEPT !.enq = @ + 1])
  /\ pc' = "for_link"
  /\ UNCHANGED <<svc_vars, args, job_status, fetch_vars,
                 start_url, depth, visited, start_domain, cur, local_path,
                 result, fetch_status, final_local_path, detected_links,
                 link_i, link, index>>

\* Line 518: mark the item done; the loop goes back to its test.  The locals
\* of the iteration are dead from here on (323 and 335-343 set them again
\* before any read), so they go back to their initial values.
TaskDone ==
  /\ pc = "task_done"
  /\ unfinished' = TaskDoneCount(unfinished)
  /\ hist' = HistSet(cur[1],
                      [H(cur[1]) EXCEPT
                         !.outcome = IF result = "dict" THEN fetch_status
                                     ELSE result])
  /\ cur' = Idle
  /\ local_path' = EmptyPath
  /\ result' = "unset"
  /\ fetch_status' = "unset"
  /\ final_local_path' = EmptyPath
  /\ detected_links' = 0
  /\ link_i' = 0
  /\ link' = NoLink
  /\ status_from_result' = "unset"
  /\ content_md5' = NoHash
  /\ target_exists' = FALSE
  /\ js_shell' = FALSE
  /\ redirect' = NoRedirect
  /\ pc' = "loop"
  /\ UNCHANGED <<svc_vars, args, job_status, sem_http, sem_browser, start_url, depth,
                 queue, visited, start_domain, index>>

\* Line 263 false: the while loop ends.
LoopExit ==
  /\ pc = "loop"
  /\ ~LoopContinues(queue)
  /\ pc' = "join"
  /\ UNCHANGED <<svc_vars, args, job_status, fetch_vars,
                 start_url, depth, queue, unfinished, visited, start_domain,
                 cur, local_path, result, fetch_status, final_local_path,
                 detected_links, link_i, link, index, hist>>

\* Lines 520-524: queue.join() returns once every item was marked done.
Join ==
  /\ pc = "join"
  /\ unfinished = 0
  /\ pc' = "done"
  /\ UNCHANGED <<svc_vars, args, job_status, fetch_vars,
                 start_url, depth, queue, unfinished, visited, start_domain,
                 cur, local_path, result, fetch_status, final_local_path,
                 detected_links, link_i, link, index, hist>>

\* Mutant of EngineEnded: the worker does not wait for queue.join().
EngineEndedAtLoopExit(p) == p \in {"done", "aborted", "raised", "join"}

\* The call of the engine has returned (524, or the returns of 216 and 248)
\* or has raised.
EngineEnded(p) == p \in {"done", "aborted", "raised"}

\* Mutant of TerminalStatus: an error of the engine puts the job back to
\* pending.
TerminalStatusRequeued(p) == IF p = "raised" THEN "pending" ELSE "completed"

\* Mutant of TerminalStatus: an error of the engine is not recorded.
TerminalStatusErrorLost(p) == IF p = "raised" THEN "running" ELSE "completed"

\* The terminal status the worker writes: failed when the engine raised (the
\* worker captures the error), completed when it returned.  The engine
\* returns None (184), so a return tells the worker nothing else.
TerminalStatus(p) == IF p = "raised" THEN "failed" ELSE "completed"

\* The worker writes the terminal status of the job once the engine call is
\* over.
WorkerEnd ==
  /\ EngineEnded(pc)
  /\ job_status = StatusAtStart
  /\ job_status' = TerminalStatus(pc)
  /\ UNCHANGED <<svc_vars, pc, args, fetch_vars, start_url, depth, queue, unfinished,
                 visited, start_domain, cur, local_path, result, fetch_status,
                 final_local_path, detected_links, link_i, link, index, hist>>

Next ==
  \/ WorkerStart \/ WorkerEnd
  \/ StartPut \/ StartVisit \/ OpenClient
  \/ Dequeue \/ PreCheck \/ FetchCall \/ Fetch \/ WriteIndex \/ Recurse
  \/ ForLink \/ LinkVisit \/ LinkPut \/ TaskDone
  \/ LoopExit \/ Join

Spec == Init /\ [][Next]_vars

\* The URLs the engine has taken from the queue so far.
Dequeued == {u \in DOMAIN hist : hist[u].deq > 0}

\* A client cancels the job while it is pending or running: the job manager
\* sets the token.  The engine is not passed the token (its parameters are
\* those of 175-184), so no step of it reads cancel_token.
Cancel ==
  /\ job_status \in {StatusAtAdmission, StatusAtStart}
  /\ ~cancel_token.cancelled
  /\ cancel_token' = [cancelled |-> TRUE, dequeued |-> Cardinality(Dequeued)]
  /\ UNCHANGED <<search_resp, other_jobs, submit_resp, hybrid_resp,
                 pc, job_status, args, start_url, depth, queue, unfinished,
                 visited, start_domain, cur, local_path, result, fetch_vars,
                 fetch_status, final_local_path, detected_links, link_i, link,
                 index, hist>>

\* The crawl of a job that a client may cancel.
CancelSpec == Init /\ [][Next \/ Cancel]_vars

\* The event loop runs the coroutine whenever it can take a step, and every
\* awaited call returns (the fetchers have timeouts).
FairSpec == Spec /\ WF_vars(Next)

\* ---------------------------------------------------------------- search
\* Text is a sequence of characters; " " stands for whatever separates the
\* texts of two elements of a page.
Lower(c) == IF c = "A" THEN "a" ELSE IF c = "B" THEN "b" ELSE c

\* str.lower()
LowerStr(t) == [i \in 1..Len(t) |-> Lower(t[i])]

\* k in t
IsSubstring(k, t) ==
  \E i \in 0..(Len(t) - Len(k)) : SubSeq(t, i + 1, i + Len(k)) = k

\* An element of a page: its tag and its text content.
Element(tag, text) == [tag |-> tag, text |-> text]

\* The pages the site serves, by path: the elements of the body, in
\* document order.  A content file holds the page of its URL's path.
FileElements(path) ==
  CASE path[4] = 1 -> << Element("title", <<"A", "b">>),
                         Element("p", <<"b", "a">>),
                         Element("p", <<"a", "B">>) >>
    [] path[4] = 2 -> << Element("p", <<"b">>) >>
    [] path[4] = 3 -> << Element("title", <<"A", "B">>),
                         Element("p", <<"a", "b">>) >>
    [] OTHER       -> << Element("p", <<"a">>) >>

\* The decoded text of a page: the texts of its elements, one after another.
RECURSIVE TextOf(_)
TextOf(elems) ==
  IF elems = <<>> THEN <<>>
  ELSE elems[1].text \o <<" ">> \o TextOf(Tail(elems))

\* The decoded text of a content file.
FileText(path) == TextOf(FileElements(path))

\* Mutant of KeywordsOccur: the comparison is case-sensitive.
KeywordsOccurCaseSensitive(keywords, text) ==
  \A i \in 1..Len(keywords) : IsSubstring(keywords[i], text)

\* Every keyword occurs in the text, both lower-cased.
KeywordsOccur(keywords, text) ==
  \A i \in 1..Len(keywords) :
    IsSubstring(LowerStr(keywords[i]), LowerStr(text))

\* The sequence back to front.
Reverse(seq) == [i \in 1..Len(seq) |-> seq[Len(seq) + 1 - i]]

\* Mutant of ScanFiles: the candidates come back in another order than the
\* paths went in.
ScanFilesReordered(recs, positions, keywords, unreadable) ==
  Reverse(SelectSeq(positions,
            LAMBDA i : /\ recs[i].local_path \notin unreadable
                       /\ KeywordsOccur(keywords, FileText(recs[i].local_path))))

\* scan_files_for_keywords: the positions, among the records given, of those
\* whose file can be read and holds every keyword.
ScanFiles(recs, positions, keywords, unreadable) ==
  SelectSeq(positions,
            LAMBDA i : /\ recs[i].local_path \notin unreadable
                       /\ KeywordsOccur(keywords, FileText(recs[i].local_path)))

\* A selector that does not parse.
Malformed == "p["

\* The element matches the selector.
Matches(el, selector) == selector = "*" \/ el.tag = selector

\* extract_text_with_selector: the positions, in document order, of the
\* elements of the file that match the selector and hold every extract
\* keyword.
ExtractPositions(path, selector, extract_keywords) ==
  SelectSeq([i \in 1..Len(FileElements(path)) |-> i],
            LAMBDA i : /\ Matches(FileElements(path)[i], selector)
                       /\ KeywordsOccur(extract_keywords,
                                        FileElements(path)[i].text))

\* Mutant of SearchResultItem: the URL is looked up in the wrong record.
SearchResultItemFirstUrl(recs, i, selector, p) ==
  [original_url |-> recs[1].canonical_url,
   extracted_text |-> FileElements(recs[i].local_path)[p].text,
   selector_matched |-> selector,
   rec |-> i, pos |-> p]

\* One result item.  rec and pos tell where it comes from: the position of
\* the record in the index and of the element in the file.
SearchResultItem(recs, i, selector, p) ==
  [original_url |-> recs[i].canonical_url,
   extracted_text |-> FileElements(recs[i].local_path)[p].text,
   selector_matched |-> selector,
   rec |-> i, pos |-> p]

\* The items of one candidate file.
ItemsOfFile(recs, i, selector, extract_keywords) ==
  LET ps == ExtractPositions(recs[i].local_path, selector, extract_keywords)
  IN  [n \in 1..Len(ps) |-> SearchResultItem(recs, i, selector, ps[n])]

\* The items of the candidate files, file after file.
RECURSIVE ItemsOfFiles(_, _, _, _)
ItemsOfFiles(recs, candidates, selector, extract_keywords) ==
  IF candidates = <<>> THEN <<>>
  ELSE ItemsOfFile(recs, Head(candidates), selector, extract_keywords)
       \o ItemsOfFiles(recs, Tail(candidates), selector, extract_keywords)

\* The positions of the records of successful fetches, in index order.
SuccessPositions(recs) ==
  SelectSeq([i \in 1..Len(recs) |-> i],
            LAMBDA i : recs[i].fetch_status = "success")

\* A response of the search coordinator.  candidates: the positions of the
\* records whose files the keyword scan returned.
SearchResponse(req, status, candidates, items) ==
  [status |-> status, req |-> req, candidates |-> candidates, items |-> items]

\* Mutant of IndexFound: the id of the request is not looked at.
IndexFoundAnyId(id, own_id, file_exists) == file_exists

\* The index file <id>.jsonl is there: the id names the job and the job has
\* an index file.
IndexFound(id, own_id, file_exists) == id = own_id /\ file_exists

\* perform_search: the index file of the id is read, the files of its
\* success records are scanned, and the selector is applied to the
\* candidates.  The selector is parsed when the first candidate is handed
\* to the extractor.
perform_search(req, own_id, file_exists, recs) ==
  IF ~IndexFound(req.id, own_id, file_exists)
  THEN SearchResponse(req, "not_found", <<>>, <<>>)
  ELSE LET candidates == ScanFiles(recs, SuccessPositions(recs),
                                   req.scan_keywords, req.unreadable)
       IN  IF candidates # <<>> /\ req.selector = Malformed
           THEN SearchResponse(req, "client_error", candidates, <<>>)
           ELSE SearchResponse(req, "ok", candidates,
                  ItemsOfFiles(recs, candidates, req.selector,
                               req.extract_keywords))

\* An id no job was admitted with.
UnknownId == <<"_">>

\* A search request, with the content files the scan will fail to read.
SearchRequest(id, scan_keywords, selector, extract_keywords, unreadable) ==
  [id |-> id, scan_keywords |-> scan_keywords, selector |-> selector,
   extract_keywords |-> extract_keywords, unreadable |-> unreadable]

\* Keyword lists: one keyword in either case, one that no page holds, two
\* keywords.
ScanKeywordLists ==
  { << <<"a", "b">> >>, << <<"A", "B">> >>, << <<"b", "b">> >>,
    << <<"b">>, <<"b", "a">> >> }

\* The requests made for the job with the index file name own_id.
SearchRequests(own_id) ==
  { SearchRequest(own_id, k, sel, <<>>, {}) :
      k \in ScanKeywordLists, sel \in {"p", "*", Malformed} }
  \cup { SearchRequest(own_id, << <<"b">> >>, "*", << <<"B">> >>, {}),
         SearchRequest(own_id, << <<"a", "b">> >>, "*", <<>>,
                       {url_to_local_path(canonicalize_url(start_url))}) }
  \cup { SearchRequest(UnknownId, << <<"a", "b">> >>, sel, <<>>, {}) :
           sel \in {"p", Malformed} }

\* The index file of the job is there once a record was appended; when no
\* append has succeeded but one was tried, the open of 452 may have created
\* it.
IndexFileExists ==
  IF index # <<>> THEN {TRUE}
  ELSE IF \E u \in DOMAIN hist : hist[u].append = "failed" THEN BOOLEAN
  ELSE {FALSE}

\* Mutant of ReadIndex: the index file is opened for writing.
ReadIndexTruncating(recs) == <<>>

\* What the index file holds after the coordinator has read it.
ReadIndex(recs) == recs

\* A client searches the job once the job's status is terminal: the
\* coordinator reads the index and the content files and answers.
Search ==
  /\ job_status \notin {StatusAtAdmission, StatusAtStart}
  /\ \E req \in SearchRequests(safe_download_id(download_id)) :
       \E file_exists \in IndexFileExists :
         search_resp' = perform_search(req, safe_download_id(download_id),
                                       file_exists, index)
  /\ index' = ReadIndex(index)
  /\ UNCHANGED <<cancel_token, other_jobs, submit_resp, hybrid_resp,
                 pc, job_status, args, start_url, depth, queue, unfinished,
                 visited, start_domain, cur, local_path, result, fetch_vars,
                 fetch_status, final_local_path, detected_links, link_i, link,
                 hist>>

\* The crawl of a job and the searches of its index.
\* Searches are followed over the crawls of depth 0 and 1 that keep existing
\* files (force is false), whose indexes hold success, skipped and failed
\* records.
SearchInit == Init /\ depth <= 1 /\ ~force

SearchSpec == SearchInit /\ [][Next \/ Search]_vars

\* The crawl on servers that answer with redirects as well.
RedirectSpec == Init /\ [][Next \/ FetchRedirected]_vars

\* ----------------------------------------------------------- job manager
\* The record of a job in the job manager's table.
JobRecord(id, status) == [id |-> id, status |-> status]

\* The ids of the admitted jobs: the job whose crawl is followed and the
\* others.
TableIds(js, own) == {own} \cup {j.id : j \in js}

\* Mutant of Duplicate: the table is not looked at.
DuplicateNever(js, own, s) == FALSE

\* A job with the sanitised id s has been admitted already.
Duplicate(js, own, s) == s \in TableIds(js, own)

\* Mutant of CreateRecord: the record is left for the worker to create.
CreateRecordDeferred(js, s) == js

\* The table with the record of a job just admitted, in pending.
CreateRecord(js, s) == js \cup {JobRecord(s, StatusAtAdmission)}

\* The answer to a status query for an id that has no record.
NotFound == "not_found"

\* GET /status/{id}: the status in the record of the job, or not-found.
\* own and own_status are the id and the status of the followed job.
StatusOf(js, own, own_status, id) ==
  IF id = own THEN own_status
  ELSE IF \E j \in js : j.id = id
       THEN (CHOOSE j \in js : j.id = id).status
       ELSE NotFound

\* The response to a submission: the id as submitted and as sanitised.
SubmitResponse(status, submitted, id) ==
  [status |-> status, submitted |-> submitted, id |-> id]

\* A client submits a job: the manager sanitises the id, rejects a
\* duplicate, and otherwise creates the job's record in pending.
Submit ==
  /\ \E submitted \in JobIds :
       LET s == safe_download_id(submitted) IN
       IF Duplicate(other_jobs, safe_download_id(download_id), s)
       THEN /\ submit_resp' = SubmitResponse("rejected", submitted, s)
            /\ other_jobs' = other_jobs
       ELSE /\ Cardinality(other_jobs) < MaxJobs
            /\ submit_resp' = SubmitResponse("accepted", submitted, s)
            /\ other_jobs' = CreateRecord(other_jobs, s)
  /\ UNCHANGED <<cancel_token, search_resp, hybrid_resp,
                 pc, job_status, args, start_url, depth, queue, unfinished,
                 visited, start_domain, cur, local_path, result, fetch_vars,
                 fetch_status, final_local_path, detected_links, link_i, link,
                 index, hist>>

\* The worker of another job starts.
OtherJobStart ==
  /\ \E j \in other_jobs :
       /\ j.status = StatusAtAdmission
       /\ other_jobs' = (other_jobs \ {j}) \cup {JobRecord(j.id, StatusAtStart)}
  /\ UNCHANGED <<cancel_token, search_resp, submit_resp, hybrid_resp,
                 pc, job_status, args, start_url, depth, queue, unfinished,
                 visited, start_domain, cur, local_path, result, fetch_vars,
                 fetch_status, final_local_path, detected_links, link_i, link,
                 index, hist>>

\* The worker of another job writes the job's terminal status.
OtherJobEnd ==
  /\ \E j \in other_jobs :
       /\ j.status = StatusAtStart
       /\ \E p \in {"done", "raised"} :
            other_jobs' = (other_jobs \ {j})
                          \cup {JobRecord(j.id, TerminalStatus(p))}
  /\ UNCHANGED <<cancel_token, search_resp, submit_resp, hybrid_resp,
                 pc, job_status, args, start_url, depth, queue, unfinished,
                 visited, start_domain, cur, local_path, result, fetch_vars,
                 fetch_status, final_local_path, detected_links, link_i, link,
                 index, hist>>

\* The job manager's table while the followed job waits for its worker:
\* submissions, and the other jobs' workers.
ManagerInit ==
  /\ Init
  /\ depth = 0
  /\ start_url = RawUrl("http", ExHostUpperPort, 1, 1)
  /\ download_id = <<"a", "/">>

ManagerNext == Submit \/ OtherJobStart \/ OtherJobEnd

ManagerSpec == ManagerInit /\ [][ManagerNext]_vars

(***************************************************************************)
(* hybrid_search: BM25 and semantic candidates merged by document key and  *)
(* re-ranked by Reciprocal Rank Fusion.  The embedding model and the       *)
(* database are the environment: the embedding is generated or None, and   *)
(* each candidate fetch returns a list or raises.  A score is the rational *)
(* <<numerator, denominator>> of the sum the code accumulates.             *)
(***************************************************************************)

\* The _key values of the documents of the view.
DocKeys == 1..NumKeys

\* The constants a caller passes as rrf_k: the default, a small one, and the
\* one that makes rrf_k + rank zero for the first rank.
DefaultRrfK == 60
RrfKs == {-1, 1, DefaultRrfK}

\* What a candidate fetch can return: the AQL runs over the view, sorts by
\* score and applies LIMIT @limit, so a list holds each document at most once
\* and at most initial_k of them.
CandidateLists(initial_k) ==
  {l \in UNION {[1..n -> DocKeys] : n \in 0..initial_k} :
     \A i, j \in 1..Len(l) : i # j => l[i] # l[j]}

\* What a fetch did: returned a list, raised, or was not called.
Returned(l) == [kind |-> "returned", list |-> l]
FetchRaised == [kind |-> "raised"]
NotFetched == [kind |-> "not_called"]

FetchOutcomes(initial_k) ==
  {Returned(l) : l \in CandidateLists(initial_k)} \cup {FetchRaised}

\* validate_search_params as hybrid_search calls it (offset 0, thresholds,
\* query text and tags of a well-formed request): top_n and initial_k must
\* be at least 1.
ValidParams(top_n, initial_k) == top_n >= 1 /\ initial_k >= 1

EmbeddingMissingIgnored(query_embedding) == FALSE

\* `if query_embedding is None`
EmbeddingMissing(query_embedding) == query_embedding = "none"

\* The try/except around a fetch: a raised exception leaves the empty list.
CandidatesRaw(outcome) == IF outcome.kind = "returned" THEN outcome.list ELSE <<>>

KeysOf(l) == {l[i] : i \in 1..Len(l)}

CombinedKeysNoMerge(bm25, semantic) == bm25 \o semantic

\* The keys of combined_results in insertion order: the BM25 keys first,
\* then the semantic keys that are not there yet.
CombinedKeys(bm25, semantic) ==
  bm25 \o SelectSeq(semantic, LAMBDA k : k \notin KeysOf(bm25))

NoRank == 0

\* bm25_rank: rank + 1 of the first occurrence (min over occurrences).
Bm25Rank(bm25, key) ==
  IF key \in KeysOf(bm25)
  THEN CHOOSE i \in 1..Len(bm25) :
         bm25[i] = key /\ \A j \in 1..Len(bm25) : bm25[j] = key => i <= j
  ELSE NoRank

\* semantic_rank: rank + 1 of the last occurrence (each one overwrites).
SemanticRank(semantic, key) ==
  IF key \in KeysOf(semantic)
  THEN CHOOSE i \in 1..Len(semantic) :
         semantic[i] = key /\ \A j \in 1..Len(semantic) : semantic[j] = key => i >= j
  ELSE NoRank

\* 1.0 / (rrf_k + rank) raises ZeroDivisionError.
DivisionByZero(rrf_k, bm25_rank, semantic_rank) ==
  \/ bm25_rank # NoRank /\ rrf_k + bm25_rank = 0
  \/ semantic_rank # NoRank /\ rrf_k + semantic_rank = 0

\* rrf_score: 1/(rrf_k + bm25_rank) + 1/(rrf_k + semantic_rank), a term
\* for each rank that is not None.
RrfScore(rrf_k, bm25_rank, semantic_rank) ==
  IF bm25_rank # NoRank /\ semantic_rank # NoRank
  THEN <<(rrf_k + bm25_rank) + (rrf_k + semantic_rank),
         (rrf_k + bm25_rank) * (rrf_k + semantic_rank)>>
  ELSE IF bm25_rank # NoRank THEN <<1, rrf_k + bm25_rank>>
  ELSE IF semantic_rank # NoRank THEN <<1, rrf_k + semantic_rank>>
  ELSE <<0, 1>>

\* a >= b for scores with positive denominators.
Geq(a, b) == a[1] * b[2] >= b[1] * a[2]

\* list.sort(key=rrf_score, reverse=True): descending and stable, an item
\* goes after the items whose score is at least its own.
RECURSIVE InsertRanked(_, _)
InsertRanked(sorted, x) ==
  IF sorted = <<>> THEN <<x>>
  ELSE IF Geq(Head(sorted).rrf_score, x.rrf_score)
       THEN <<Head(sorted)>> \o InsertRanked(Tail(sorted), x)
       ELSE <<x>> \o sorted

RECURSIVE SortRanked(_)
SortRanked(l) ==
  IF l = <<>> THEN <<>>
  ELSE InsertRanked(SortRanked(SubSeq(l, 1, Len(l) - 1)), l[Len(l)])

\* ranked_list[:top_n]
Take(l, n) == SubSeq(l, 1, IF n < Len(l) THEN n ELSE Len(l))

\* The call: req is [top_n, initial_k, rrf_k], query_embedding what
\* get_embedding returns, bm25_outcome and semantic_outcome what the two
\* fetches do when they are called.
hybrid_search(req, query_embedding, bm25_outcome, semantic_outcome) ==
  LET bm25_candidates_raw == CandidatesRaw(bm25_outcome)
      semantic_candidates_raw == CandidatesRaw(semantic_outcome)
      combined_results == CombinedKeys(bm25_candidates_raw, semantic_candidates_raw)
      br(k) == Bm25Rank(bm25_candidates_raw, k)
      sr(k) == SemanticRank(semantic_candidates_raw, k)
      ranked_list == [i \in 1..Len(combined_results) |->
                        [key |-> combined_results[i],
                         rrf_score |-> RrfScore(req.rrf_k, br(combined_results[i]),
                                                sr(combined_results[i]))]]
      final_results == Take(SortRanked(ranked_list), req.top_n)
  IN  IF ~ValidParams(req.top_n, req.initial_k)
      THEN [status |-> "raised", error |-> "ValueError", req |-> req,
            query_embedding |-> "not_called",
            bm25 |-> NotFetched, semantic |-> NotFetched]
      ELSE IF EmbeddingMissing(query_embedding)
      THEN [status |-> "ok", req |-> req, query_embedding |-> query_embedding,
            bm25 |-> NotFetched, semantic |-> NotFetched,
            results |-> <<>>, total |-> 0, offset |-> 0, limit |-> req.top_n]
      ELSE IF \E i \in 1..Len(combined_results) :
                DivisionByZero(req.rrf_k, br(combined_results[i]), sr(combined_results[i]))
      THEN [status |-> "raised", error |-> "ZeroDivisionError", req |-> req,
            query_embedding |-> query_embedding,
            bm25 |-> bm25_outcome, semantic |-> semantic_outcome]
      ELSE [status |-> "ok", req |-> req, query_embedding |-> query_embedding,
            bm25 |-> bm25_outcome, semantic |-> semantic_outcome,
            results |-> final_results, total |-> Len(combined_results),
            offset |-> 0, limit |-> req.top_n]

HybridRequests ==
  [top_n : 0..MaxTopN, initial_k : 1..MaxCandidates, rrf_k : RrfKs]

\* One call of hybrid_search; the function keeps no state, so a behaviour
\* follows a single call.  The environment fixes what get_embedding and the
\* two fetches do if they are called; hybrid_search decides which of them run.
HybridSearch ==
  /\ hybrid_resp = NoHybrid
  /\ \E req \in HybridRequests, query_embedding \in {"ok", "none"} :
       \E bm25_outcome \in FetchOutcomes(req.initial_k),
          semantic_outcome \in FetchOutcomes(req.initial_k) :
         hybrid_resp' = hybrid_search(req, query_embedding,
                                      bm25_outcome, semantic_outcome)
  /\ UNCHANGED <<cancel_token, search_resp, other_jobs, submit_resp,
                 pc, job_status, args, start_url, depth, queue, unfinished,
                 visited, start_domain, cur, local_path, result, fetch_vars,
                 fetch_status, final_local_path, detected_links, link_i, link,
                 index, hist>>

HybridInit == ManagerInit

HybridSpec == HybridInit /\ [][HybridSearch]_vars

\* ---------------------------------------------------------------- claims
\* The number of records the index file holds for a URL.
Rows(u) == Cardinality({i \in 1..Len(index) : index[i].canonical_url = u})

\* The canonical URLs in the work queue.
Queued == {queue[i][1] : i \in 1..Len(queue)}

\* The authority of the start URL.
StartAuthority == netloc(canonicalize_url(start_url))

\* The link the for loop has just handled is an http link that parses.
LinkHandled ==
  /\ pc = "for_link"
  /\ link # NoLink
  /\ ~CanonRaises(urljoin(cur[1], link))
  /\ urljoin(cur[1], link).scheme = "http"

\* C1: when the job has ended, the index holds exactly one record for every
\* URL that was dequeued, whatever path its processing took.  The code
\* violates it: a URL whose pre-check raised, or whose fetcher raised or
\* returned None, has no record.
C1_OneRecordPerDequeuedUrl ==
  pc = "done" => \A u \in AllCanon : H(u).deq > 0 => Rows(u) = 1

\* C2: every canonical URL in the work queue is in the visited set, in every
\* state.  The code violates it for the start URL, which is put on the queue
\* (237) one statement before it is added to visited (238).
C2_QueuedUrlsAreVisited == Queued \subseteq visited

\* C3: every canonical URL is enqueued at most once, dequeued at most once
\* and passed to a fetcher at most once.
C3_AtMostOncePerUrl ==
  \A u \in AllCanon :
    H(u).enq <= 1 /\ H(u).deq <= 1 /\ H(u).fetched <= 1

\* C3 witness: a page links to a URL of the start domain that was already
\* fetched; the link has been handled and the URL is still enqueued once.
C3_Witness ==
  /\ LinkHandled
  /\ netloc(CanonLink) = start_domain
  /\ CanonLink # cur[1]
  /\ H(CanonLink).fetched = 1
  /\ H(CanonLink).enq = 1

DepthBound ==
  /\ \A i \in 1..Len(queue) : queue[i][2] <= depth
  /\ pc = "link_put" => cur[2] < depth

\* C5: no URL is enqueued deeper than the depth argument, no link of a page
\* at that depth is enqueued, and with depth 0 a finished job has fetched at
\* most the start URL and its index holds exactly one record.  The code
\* violates the last part where it violates C1.
C5_DepthLimit ==
  /\ DepthBound
  /\ (depth = 0 /\ pc = "done") =>
       /\ \A u \in AllCanon :
            H(u).fetched > 0 => u = canonicalize_url(start_url)
       /\ Len(index) = 1

\* C6: a record of the index has a non-empty local_path exactly when its
\* fetch_status is success.
C6_LocalPathIffSuccess ==
  \A i \in 1..Len(index) :
    (index[i].local_path # EmptyPath) <=> (index[i].fetch_status = "success")

\* C6 witness: the index holds a success record with its path and a record
\* of another status without one.
C6_Witness ==
  \E i, j \in 1..Len(index) :
    /\ index[i].fetch_status = "success"
    /\ index[i].local_path = url_to_local_path(index[i].canonical_url)
    /\ index[j].fetch_status # "success"
    /\ index[j].local_path = EmptyPath

\* The records of u in the index all have this status and no local_path.
RowsAre(u, status) ==
  \A i \in 1..Len(index) :
    index[i].canonical_url = u =>
      index[i].fetch_status = status /\ index[i].local_path = EmptyPath

\* The engine has moved on from u.
MovedOn(u) == cur = Idle \/ cur[1] # u

Failed(u) ==
  \/ H(u).outcome \in {"failed_ssrf", "failed_robotstxt", "error_robots",
                        "error_map", "failed_request", "failed_paywall",
                        "none", "raise"}
  \/ H(u).append = "failed"

\* C9: a failure of one URL does not stop the crawl: from any state in which
\* some URL has failed, every URL then in the work queue is eventually
\* dequeued and processed to its end.
C9_FailuresDoNotStopCrawl ==
  \A u \in AllCanon :
    ((\E v \in AllCanon : Failed(v)) /\ u \in Queued) ~> (H(u).outcome # "")

\* C9 witness: in a depth-1 crawl, where every link was enqueued by the
\* start page, a URL failed and a record of a later URL follows its record.
C9_Witness ==
  /\ depth = 1
  /\ \E i, j \in 1..Len(index) :
       /\ i < j
       /\ index[i].canonical_url # canonicalize_url(start_url)
       /\ Failed(index[i].canonical_url)
       /\ H(index[j].canonical_url).outcome # ""

\* C10: the loop is left exactly when the queue is empty, the job ends with
\* the queue empty and no item unfinished, and under fair scheduling the
\* engine call of every job ends (it returns, or raises before the loop).
C10_Terminates ==
  /\ [][(pc = "loop" /\ pc' # "loop") =>
          ((pc' = "join") <=> (queue = <<>>))]_vars
  /\ [](pc = "done" => (queue = <<>> /\ unfinished = 0 /\ cur = Idle))
  /\ <>EngineEnded(pc)

\* C10 witness: a job that processed several URLs has ended.
C10_Witness ==
  /\ pc = "done"
  /\ Cardinality({u \in AllCanon : H(u).deq > 0}) >= 3

\* The terminal statuses of a job.
TerminalStatuses == {"completed", "failed"}

\* The changes of status a job may make.
StatusMoves ==
  { <<"pending", "running">>, <<"running", "completed">>,
    <<"running", "failed">> }

\* C11: a job is created pending, is running from the start of its worker
\* on, and its status only ever changes pending -> running -> completed or
\* failed: one terminal transition, and no change after it.
C11_StatusLifecycle ==
  /\ job_status = "pending"
  /\ []((pc = "admitted") <=> (job_status = "pending"))
  /\ [][job_status' # job_status =>
          <<job_status, job_status'>> \in StatusMoves]_vars

\* C11 witness: a job that crawled several URLs has gone all the way to
\* completed.
C11_Witness ==
  /\ job_status = "completed"
  /\ pc = "done"
  /\ Len(index) >= 2

\* C12: under fair scheduling every admitted job reaches completed or
\* failed, and a job whose engine raised a top-level error reaches failed.
C12_JobReachesTerminalStatus ==
  /\ <>(job_status \in TerminalStatuses)
  /\ [](pc = "raised" => <>(job_status = "failed"))

\* C12 witness: the engine raised and the job is failed.
C12_Witness == pc = "raised" /\ job_status = "failed"

\* C13 as claimed: when a job has a terminal status, its work queue is empty,
\* no item is unfinished and no URL is being processed.  Violated: an engine
\* that returns at 248 (start URL without authority) or raises at 250-261
\* leaves the start URL, put at 237, in the queue.
C13_TerminalAfterDrain ==
  job_status \in TerminalStatuses =>
    queue = <<>> /\ unfinished = 0 /\ cur = Idle

\* C13 as amended: a terminal status is written only after the engine call
\* is over: no URL is being processed, no fetch is in flight, and the queue
\* and the index do not change any more.  After a crawl that ran its loop
\* the queue is empty and every item is done; an engine that ended before
\* its loop has fetched nothing and written no record, and only then can
\* the start URL still be in the queue.
C13_TerminalAfterEngineEnd ==
  /\ [](job_status \in TerminalStatuses =>
         /\ pc \in {"done", "aborted", "raised"}
         /\ cur = Idle /\ sem_http = 0 /\ sem_browser = 0
         /\ pc = "done" => (queue = <<>> /\ unfinished = 0)
         /\ pc # "done" =>
              /\ index = <<>> /\ Len(queue) <= 1
              /\ \A u \in AllCanon : H(u).deq = 0)
  /\ [][(job_status \in TerminalStatuses) =>
          (index' = index /\ queue' = queue)]_vars

\* C13 witness: a job that wrote several index records has reached its
\* terminal status.
C13_Witness ==
  /\ job_status \in TerminalStatuses
  /\ pc = "done"
  /\ Len(index) >= 3

\* The canonical start URL.
StartCanonical == canonicalize_url(start_url)

\* The processing of the URL ended without a fetched or skipped page.
EndedInFailure(u) ==
  H(u).outcome \in {"failed_ssrf", "failed_robotstxt", "error_robots",
                     "error_map", "failed_request", "failed_paywall",
                     "none", "raise"}

\* C14: the terminal status of a job is completed when some URL was fetched
\* successfully and failed when the start URL itself failed; a start URL
\* denied by robots gives one failed_robots record, status failed and no
\* content file.  The code violates it: the engine returns None whatever
\* happened to the start URL, so the job is completed.
C14_StatusReflectsCrawl ==
  (job_status \in TerminalStatuses /\ pc = "done") =>
    /\ (\E u \in AllCanon : H(u).outcome = "success") =>
         job_status = "completed"
    /\ EndedInFailure(StartCanonical) => job_status = "failed"
    /\ H(StartCanonical).robots = "denied" =>
         /\ Rows(StartCanonical) = 1
         /\ RowsAre(StartCanonical, "failed_robots")
         /\ job_status = "failed"
         /\ \A u \in AllCanon : ~H(u).saved

\* The files the job has written: its index file and the content files of
\* the pages its fetcher saved.
Written ==
  (IF index # <<>> THEN {index_path(download_id)} ELSE {})
  \cup {url_to_local_path(u) : u \in {v \in DOMAIN hist : hist[v].saved}}

\* The content files under the content root.
ContentPaths == {url_to_local_path(u) : u \in AllCanon}

\* The files a job with the id j can write when it crawls the same start
\* URL: its index file and the content file of any URL of that authority.
PathsOfJob(j) ==
  {index_path(j)}
  \cup {url_to_local_path(u) :
          u \in {v \in AllCanon : netloc(v) = StartAuthority}}

RowsOf(u) == {i \in 1..Len(index) : index[i].canonical_url = u}

TooBig == cur # Idle /\ status_from_result = "failed_toobig"

\* C17 as claimed: a body larger than the maximum size gives the URL the
\* fetch_status failed_toobig, on the record too, and no content file.
\* Violated: the engine maps the status to failed_request (403-409).
C17_TooBigOwnStatus ==
  TooBig =>
    /\ fetch_status = "failed_toobig"
    /\ \A i \in RowsOf(cur[1]) : index[i].fetch_status = "failed_toobig"
    /\ final_local_path = EmptyPath /\ ~H(cur[1]).saved

\* C17 as amended: such a URL is recorded as failed_request, the status of
\* every fetcher failure but failed_paywall: its record has that status, no
\* local_path and no hash, no content file is written for it and its links
\* are not followed.
C17_TooBigIsFailedRequest ==
  TooBig =>
    /\ fetch_status = "failed_request"
    /\ \A i \in RowsOf(cur[1]) :
         /\ index[i].fetch_status = "failed_request"
         /\ index[i].local_path = EmptyPath
         /\ index[i].content_md5 = NoHash
    /\ Rows(cur[1]) <= 1
    /\ final_local_path = EmptyPath /\ ~H(cur[1]).saved
    /\ pc \in {"write", "recurse", "task_done"}

\* C17 witness: the record of a URL whose body was too big is in the index.
C17_Witness == TooBig /\ Rows(cur[1]) = 1 /\ pc = "task_done"

\* The result the engine keeps for the current URL is a page that the
\* requests fetcher got and that looks like a JavaScript shell.
JsShellKept == cur # Idle /\ js_shell /\ fetch_status = "success"

\* C18: when the HTTP fetch of a URL succeeds with a body that triggers the
\* JS-shell heuristic, the engine retries the URL with the browser fetcher,
\* and the one index record of the URL carries the browser result.  The
\* code violates it: the fetcher is chosen once by use_playwright (357-369)
\* and the result of the requests fetcher is recorded as it is.
C18_JsShellRetriedWithBrowser ==
  (JsShellKept /\ pc \in {"recurse", "task_done"}) =>
    /\ H(cur[1]).fetched = 2
    /\ Rows(cur[1]) = 1

C20_QueueWithinCapacity == Len(queue) <= QueueCapacity

\* C20 as amended: the work queue is unbounded: a link enqueue never blocks
\* and always adds its item; the queue holds no URL twice, so its length
\* is bounded only by the number of URLs that were enqueued.
C20_QueueUnbounded ==
  /\ [](/\ \A i, j \in 1..Len(queue) : queue[i][1] = queue[j][1] => i = j
        /\ Len(queue) <= Cardinality({u \in AllCanon : H(u).enq > 0})
        /\ pc = "link_put" => ENABLED LinkPut)
  /\ [][pc = "link_put" =>
          queue' = Append(queue, <<CanonLink, cur[2] + 1>>)]_vars

\* C20 witness: the queue holds more items than the capacity.
C20_Witness == Len(queue) > QueueCapacity /\ pc = "for_link"
\* C21: once the job's token is cancelled, the engine dequeues no further
\* URL, and the terminal status of the job is failed.  The code violates
\* it: the engine takes no token and crawls on until its queue is empty.
C21_CancelStopsJob ==
  cancel_token.cancelled =>
    /\ Cardinality(Dequeued) = cancel_token.dequeued
    /\ job_status \in TerminalStatuses => job_status = "failed"

\* The name of the job's index file.
OwnId == safe_download_id(download_id)

\* A search has been answered.
Searched == search_resp.status # "none"

\* C22: a search for an id that has no index file - the id of no job, or
\* the id of a job that never tried to append a record - fails with
\* not_found and returns no items.
C22_NoIndexNotFound ==
  ( /\ Searched
    /\ \/ search_resp.req.id # OwnId
       \/ index = <<>> /\ \A u \in DOMAIN hist : hist[u].append = "" )
  => search_resp.status = "not_found" /\ search_resp.items = <<>>

\* C22 witness: the job has records in its index, and a search for another
\* id was answered not_found.
C22_Witness ==
  /\ Searched
  /\ search_resp.req.id = UnknownId
  /\ search_resp.status = "not_found"
  /\ Len(index) >= 2

\* C23: every item of a search belongs to the requested job and to a
\* successful fetch: its original_url is the URL of a success record of the
\* job's index, the job saved that URL's page at the record's local_path,
\* and the item's text is the text of an element of that file.
C23_ItemsFromSuccessRecords ==
  (Searched /\ search_resp.status = "ok") =>
    \A n \in 1..Len(search_resp.items) :
      LET it == search_resp.items[n] IN
      /\ search_resp.req.id = OwnId
      /\ \E i \in 1..Len(index) :
           /\ index[i].canonical_url = it.original_url
           /\ index[i].fetch_status = "success"
           /\ index[i].local_path = url_to_local_path(it.original_url)
           /\ H(it.original_url).saved
           /\ \E p \in 1..Len(FileElements(index[i].local_path)) :
                FileElements(index[i].local_path)[p].text = it.extracted_text

\* C23 witness: the index holds a record that is no success before a
\* success record, and a search returned an item of the latter.
C23_Witness ==
  /\ Searched /\ search_resp.status = "ok"
  /\ \E n \in 1..Len(search_resp.items) :
       /\ search_resp.items[n].rec >= 2
       /\ \E i \in 1..Len(index) :
            /\ i < search_resp.items[n].rec
            /\ index[i].fetch_status # "success"

\* The keyword occurs in the text at some offset, letter case aside.
OccursIgnoringCase(k, t) ==
  \E off \in 0..(Len(t) - Len(k)) :
    \A j \in 1..Len(k) : Lower(t[off + j]) = Lower(k[j])

\* The success records whose files the scan of the last search could read.
Scanned ==
  {i \in 1..Len(index) :
     /\ index[i].fetch_status = "success"
     /\ index[i].local_path \notin search_resp.req.unreadable}

\* The candidates of the last search.
Candidates ==
  {search_resp.candidates[n] : n \in 1..Len(search_resp.candidates)}

\* Every scan keyword of the last search occurs in the file of record i.
HoldsAllKeywords(i) ==
  \A n \in 1..Len(search_resp.req.scan_keywords) :
    OccursIgnoringCase(search_resp.req.scan_keywords[n],
                       FileText(index[i].local_path))

\* C24: a file the scan read is a candidate exactly when every scan keyword
\* occurs in its text, letter case aside; so a search whose keywords no
\* file of the job holds returns an empty list.
C24_CandidateIffAllKeywords ==
  (Searched /\ search_resp.status # "not_found") =>
    /\ Candidates \subseteq Scanned
    /\ \A i \in Scanned : i \in Candidates <=> HoldsAllKeywords(i)
    /\ (\A i \in Scanned : ~HoldsAllKeywords(i)) =>
         search_resp.status = "ok" /\ search_resp.items = <<>>

\* C24 witness: the keyword AB was searched in an index with two success
\* records; the file of one holds it only in another letter case and is a
\* candidate, the file of the other does not hold it and is none.
C24_Witness ==
  /\ Searched /\ search_resp.status = "ok"
  /\ search_resp.req.scan_keywords = << <<"A", "B">> >>
  /\ \E i \in Candidates :
       ~IsSubstring(<<"A", "B">>, FileText(index[i].local_path))
  /\ Scanned \ Candidates # {}

\* C25: the items of a search come in the order of their files' records in
\* the index and, within one file, in the order of the elements in the
\* document.
C25_ItemsInIndexThenDocumentOrder ==
  (Searched /\ search_resp.status = "ok") =>
    \A m, n \in 1..Len(search_resp.items) :
      m < n =>
        LET a == search_resp.items[m]
            b == search_resp.items[n]
        IN  a.rec < b.rec \/ (a.rec = b.rec /\ a.pos < b.pos)

\* C25 witness: a search returned two items of one file and an item of a
\* file whose record comes later in the index.
C25_Witness ==
  /\ Searched /\ search_resp.status = "ok"
  /\ \E m, n, k \in 1..Len(search_resp.items) :
       /\ m < n /\ n < k
       /\ search_resp.items[m].rec = search_resp.items[n].rec
       /\ search_resp.items[n].rec < search_resp.items[k].rec

\* C26: a search request - answered with items, with a client error for a
\* selector that does not parse, or with not_found - leaves the job's index,
\* its content files and its status as they were.
C26_SearchChangesNothing ==
  [][ search_resp' # search_resp =>
        /\ index' = index
        /\ hist' = hist
        /\ job_status' = job_status ]_vars

\* C26 witness: a search of an index with records was refused for its
\* selector.
C26_Witness ==
  /\ search_resp.status = "client_error"
  /\ search_resp.req.selector = Malformed
  /\ Len(index) >= 1

\* The last submission, if any.
Submitted == submit_resp.status # "none"

\* The name of the index file of the last submission.
SubmittedIndexName == index_path(submit_resp.submitted)[2]

\* C27: the id that names the index file of a submitted job is never empty
\* and has only characters of [A-Za-z0-9_.-]: it is the default id when the
\* supplied id is empty, and otherwise the supplied id with every other
\* character replaced by "_"; the index path is that name, with the suffix
\* .jsonl, directly in the index directory.
C27_IndexNameSanitised ==
  Submitted =>
    LET id == submit_resp.submitted
        p == index_path(id)
        name == SubmittedIndexName
    IN /\ p = <<"index", name, ".jsonl">>
       /\ name = submit_resp.id
       /\ name # <<>>
       /\ \A i \in 1..Len(name) :
            name[i] \in SafeIdChars \cup {"default_download"}
       /\ id = <<>> => name = <<"default_download">>
       /\ id # <<>> =>
            /\ Len(name) = Len(id)
            /\ \A i \in 1..Len(id) :
                 name[i] = IF id[i] \in SafeIdChars THEN id[i] ELSE "_"

\* A job was submitted with a path separator in its id.
C27_Witness ==
  /\ Submitted
  /\ \E i \in 1..Len(submit_resp.submitted) : submit_resp.submitted[i] = "/"
  /\ \A i \in 1..Len(SubmittedIndexName) : SubmittedIndexName[i] # "/"

\* No two admitted jobs have the same id or the same index file.
NoSharedIds ==
  /\ \A j \in other_jobs :
       /\ j.id # OwnId
       /\ index_path(j.id) # index_path(download_id)
  /\ \A j1, j2 \in other_jobs :
       j1 # j2 => j1.id # j2.id /\ index_path(j1.id) # index_path(j2.id)

InLinkLoop == pc \in {"for_link", "link_visit", "link_put"}

\* The current URL was skipped below the depth limit, the existing file has
\* links, and the engine is done with it.
SkippedWithLinks ==
  /\ pc = "task_done"
  /\ fetch_status = "skipped"
  /\ cur[2] < depth
  /\ detected_links > 0

\* C29 as claimed: the links of a URL skipped below the depth limit are gone
\* through (and enqueued at depth + 1) as those of a fetched page are.
\* Violated: the engine follows links only when fetch_status is success
\* (466), so none of the links of a skipped page is looked at.
C29_SkippedLinksFollowed == SkippedWithLinks => link_i = detected_links

\* C29 as amended: a URL skipped because its file exists is recorded as
\* skipped and its links are not followed, whatever its depth: links are
\* gone through only for a page fetched with success below the depth limit.
\* So a re-run with force=false in which the start URL is skipped attempts
\* the start URL only and writes at most its one row.
C29_SkippedLinksNotFollowed ==
  /\ InLinkLoop => fetch_status = "success" /\ cur[2] < depth
  /\ (cur # Idle /\ fetch_status = "skipped") => link_i = 0 /\ link = NoLink
  /\ H(StartCanonical).outcome = "skipped" =>
       /\ Dequeued = {StartCanonical}
       /\ visited = {StartCanonical}
       /\ queue = <<>>
       /\ Len(index) <= 1

\* C29 witness: the start URL of a crawl of depth 1 or more was skipped, the
\* existing file has links, its skipped row is written and no link was
\* looked at.
C29_Witness ==
  /\ SkippedWithLinks
  /\ cur[1] = StartCanonical
  /\ link_i = 0
  /\ Rows(cur[1]) = 1
  /\ visited = {StartCanonical}

\* C30 as claimed: a URL whose fetcher raised or returned no result has,
\* once the engine is done with it, exactly one row, of status
\* failed_request with empty local_path.  Violated: building the record
\* reads result.get (446) with result None, the exception is swallowed (456)
\* and no row is written, though 420-421 and 431-432 set the status and the
\* message for it.
C30_FetcherFailureOneRow ==
  \A u \in DOMAIN hist :
    hist[u].outcome \in {"none", "raise"} =>
      Rows(u) = 1 /\ RowsAre(u, "failed_request")

\* C31: a row is written for the URL the engine is processing, as the last
\* row of the index, only once the attempt on the URL is finalised: the policy
\* block is decided, or the fetcher call has returned and its status is
\* mapped; a success row is written after the fetcher saved the body at the
\* row's local_path.  Every row before it belongs to a URL whose processing
\* had ended, so the rows are in the order in which attempts were finalised.
C31_RowAfterFinalised ==
  [][ index' # index =>
        /\ Len(index') = Len(index) + 1
        /\ cur # Idle
        /\ LET r == index'[Len(index')]
               u == cur[1]
           IN /\ r.canonical_url = u
              /\ r.fetch_status \in PreCheckRecords =>
                   pc = "precheck" /\ H(u).fetched = 0
              /\ r.fetch_status \notin PreCheckRecords =>
                   /\ pc = "write"
                   /\ H(u).fetched = 1
                   /\ r.fetch_status = fetch_status
              /\ r.fetch_status = "success" =>
                   H(u).saved /\ r.local_path = url_to_local_path(u)
              /\ \A i \in 1..Len(index) :
                   /\ index[i].canonical_url # u
                   /\ H(index[i].canonical_url).outcome # "" ]_vars

\* C31 witness: the success row of a saved page has been written after the
\* row of a URL finalised before it.
C31_Witness ==
  /\ pc = "recurse"
  /\ Len(index) = 2
  /\ index[2].canonical_url = cur[1]
  /\ index[2].fetch_status = "success"
  /\ H(cur[1]).saved
  /\ H(index[1].canonical_url).outcome # ""

\* C32: the index is append-only: every step leaves the rows written so far
\* as they are, in their places.
C32_IndexAppendOnly ==
  [][ /\ Len(index') >= Len(index)
      /\ SubSeq(index', 1, Len(index)) = index ]_vars

\* C32 witness: a row was appended to an index that held rows.
C32_Witness ==
  /\ Len(index) >= 2
  /\ cur # Idle
  /\ index[Len(index)].canonical_url = cur[1]
  /\ index[1].canonical_url # cur[1]

\* C33: a fetch whose redirect chain ends outside the start authority gives
\* the URL the status failed_request, on its row too, and no body is saved.
\* Violated: the client follows the redirects and the engine never learns
\* where they ended, so the body of the other authority is saved under the
\* path of the URL and recorded as success.
C33_OffAuthorityRedirectFails ==
  (cur # Idle /\ redirect = "outside") =>
    /\ fetch_status = "failed_request"
    /\ ~H(cur[1]).saved
    /\ RowsAre(cur[1], "failed_request")

\* What a status query for the id of the last submission returns.
StatusOfSubmitted ==
  StatusOf(other_jobs, OwnId, job_status, submit_resp.id)

InProcess == IF cur = Idle THEN 0 ELSE 1

\* C35: every item taken from the queue is marked done exactly once, on
\* every path: the queue's count of unfinished items is the number of items
\* in the queue plus the item being processed, so it is never negative, and
\* it is zero when the engine waits for the queue to drain.
C35_TaskDoneExactlyOnce ==
  /\ unfinished = Len(queue) + InProcess
  /\ unfinished >= 0
  /\ pc \in {"join", "done"} => unfinished = 0 /\ queue = <<>> /\ cur = Idle
  /\ \A u \in DOMAIN hist :
       (hist[u].outcome # "" /\ (cur = Idle \/ cur[1] # u)) =>
          hist[u].deq = 1 /\ u \notin Queued

\* C35 witness: the engine waits on an empty queue after items ended on a
\* policy block, on a pre-check error and on a completed fetch.
C35_Witness ==
  /\ pc = "join"
  /\ unfinished = 0
  /\ \E u, v, w \in DOMAIN hist :
       /\ hist[u].outcome \in PreCheckRecords
       /\ hist[v].outcome \in {"error_robots", "error_map"}
       /\ hist[w].outcome = "success"

\* The engine has a successfully fetched page with links in hand, at a depth
\* below the limit.
PageToExpand ==
  /\ pc = "recurse"
  /\ fetch_status = "success"
  /\ cur[2] < depth
  /\ detected_links > 0

\* The link the for loop stands at leads to u, an http URL of the start
\* authority.
LinkLeadsTo(u) ==
  /\ pc = "link_visit"
  /\ ~CanonRaises(urljoin(cur[1], link))
  /\ urljoin(cur[1], link).scheme \in {"http", "https"}
  /\ CanonLink = u
  /\ netloc(u) = start_domain

\* u was taken from the queue and its pre-download checks were made.
Attempted(u) == H(u).deq = 1 /\ H(u).ssrf # ""

\* C36: every link of a successfully fetched page below the depth limit is
\* looked at, and every URL of the start authority that such a link leads to
\* is eventually dequeued and attempted, whether it is new or was found
\* before; so is the start URL once the loop is entered.
C36_ReachableUrlsAttempted ==
  /\ PageToExpand ~> (pc = "task_done" /\ link_i = detected_links)
  /\ \A u \in AllCanon : LinkLeadsTo(u) ~> Attempted(u)
  /\ (pc = "loop" /\ queue # <<>>) ~> Attempted(StartCanonical)

\* C36 witness: a page at depth 1 links to a URL of the start authority that
\* was found before and has been attempted.
C36_Witness ==
  /\ LinkLeadsTo(CanonLink)
  /\ cur[2] = 1
  /\ CanonLink # cur[1]
  /\ CanonLink # StartCanonical
  /\ Attempted(CanonLink)

\* The start URL does not parse, or has no authority.
BadStartUrl ==
  CanonRaises(start_url) \/ netloc(canonicalize_url(start_url)) = NoHost

\* C37: with a start URL that cannot be canonicalised or has no authority the
\* engine returns before the fetch loop: it never opens the client, no URL is
\* dequeued or passed to a fetcher and the index stays empty.
C37_BadStartUrlAborts ==
  BadStartUrl =>
    /\ pc \in {"admitted", "start", "start_visit", "aborted"}
    /\ index = <<>>
    /\ \A u \in DOMAIN hist : hist[u].deq = 0 /\ hist[u].fetched = 0
    /\ cur = Idle

\* C37 witness: the engine has returned on a start URL without authority,
\* which it had put on the queue.
C37_Witness ==
  /\ BadStartUrl
  /\ ~CanonRaises(start_url)
  /\ pc = "aborted"
  /\ job_status \in TerminalStatuses
  /\ Len(queue) = 1

\* C38: the crawl never deadlocks on back-pressure: whenever the engine is
\* about to enqueue a link the enqueue can be made, whatever the queue holds,
\* so the engine goes on with the for loop, and the engine call ends.
C38_NoBackPressureDeadlock ==
  /\ [](pc = "link_put" => ENABLED LinkPut)
  /\ (pc = "link_put") ~> (pc = "for_link")
  /\ (pc = "link_put") ~> EngineEnded(pc)

\* C38 witness: the engine is about to enqueue a link while the queue holds
\* QueueCapacity items or more.
C38_Witness == pc = "link_put" /\ Len(queue) >= QueueCapacity

(***************************************************************************)
(* Hybrid search.                                                          *)
(***************************************************************************)

\* The candidates the call got from each search type.
FoundBm25 == CandidatesRaw(hybrid_resp.bm25)
FoundSemantic == CandidatesRaw(hybrid_resp.semantic)
FoundKeys == KeysOf(FoundBm25) \cup KeysOf(FoundSemantic)

PositionIn(l, key) == CHOOSE i \in 1..Len(l) : l[i] = key

\* The sum of 1/(rrf_k + rank) over the lists that hold the key, from the
\* positions in the lists.
RrfSum(key) ==
  LET k == hybrid_resp.req.rrf_k
      b == IF key \in KeysOf(FoundBm25) THEN k + PositionIn(FoundBm25, key) ELSE 0
      s == IF key \in KeysOf(FoundSemantic) THEN k + PositionIn(FoundSemantic, key) ELSE 0
  IN  IF b # 0 /\ s # 0 THEN <<b + s, b * s>>
      ELSE IF b # 0 THEN <<1, b>>
      ELSE <<1, s>>

SameScore(a, b) == a[1] * b[2] = b[1] * a[2]

ResultKeys == {hybrid_resp.results[i].key : i \in 1..Len(hybrid_resp.results)}

\* C39: a successful hybrid_search merges the two candidate lists by
\* document key.  Each key is in the result at most once and only if a list
\* found it; the score of an item is the sum of 1/(rrf_k + rank) over the
\* lists that hold its document; the items are in non-increasing order of
\* score; the result holds min(top_n, total) items, none of them with a
\* lower score than a found document left out; total is the number of
\* distinct keys of the two lists; offset is 0 and limit is top_n.
C39_MergedByKeyRankedByRrf ==
  hybrid_resp.status = "ok" =>
    LET res == hybrid_resp.results
        top_n == hybrid_resp.req.top_n
    IN  /\ \A i, j \in 1..Len(res) : i # j => res[i].key # res[j].key
        /\ ResultKeys \subseteq FoundKeys
        /\ \A i \in 1..Len(res) : SameScore(res[i].rrf_score, RrfSum(res[i].key))
        /\ \A i \in 1..Len(res) : \A j \in 1..Len(res) :
             i < j => Geq(res[i].rrf_score, res[j].rrf_score)
        /\ Len(res) <= top_n
        /\ hybrid_resp.total = Cardinality(FoundKeys)
        /\ Len(res) = IF top_n < hybrid_resp.total THEN top_n ELSE hybrid_resp.total
        /\ \A key \in FoundKeys \ ResultKeys : \A i \in 1..Len(res) :
             Geq(res[i].rrf_score, RrfSum(key))
        /\ hybrid_resp.offset = 0
        /\ hybrid_resp.limit = top_n

\* C39 witness: a document found by both lists, second in the BM25 list,
\* comes first in the result, ahead of the first BM25 candidate, and a found
\* document is cut off by top_n.
C39_Witness ==
  /\ hybrid_resp.status = "ok"
  /\ Len(hybrid_resp.results) >= 2
  /\ Len(FoundBm25) >= 2
  /\ hybrid_resp.results[1].key = FoundBm25[2]
  /\ hybrid_resp.results[1].key \in KeysOf(FoundSemantic)
  /\ hybrid_resp.results[2].key = FoundBm25[1]
  /\ hybrid_resp.total > Len(hybrid_resp.results)

\* The keys of the result, in order.
ResultKeySeq == [i \in 1..Len(hybrid_resp.results) |-> hybrid_resp.results[i].key]

\* The result is the other list alone: its first top_n candidates in its
\* own order, and total its length.
ResultIsListAlone(l) ==
  /\ ResultKeySeq = Take(l, hybrid_resp.req.top_n)
  /\ hybrid_resp.total = Len(l)

\* A rank of a returned list makes rrf_k + rank zero.
ZeroDenominator ==
  \/ \E i \in 1..Len(FoundBm25) : hybrid_resp.req.rrf_k + i = 0
  \/ \E i \in 1..Len(FoundSemantic) : hybrid_resp.req.rrf_k + i = 0

\* C40: hybrid_search degrades instead of failing.  A candidate fetch that
\* raises is never why the call raises: the call raises only for invalid
\* parameters or a zero rrf_k + rank.  When the BM25 fetch raises the
\* semantic fetch still runs, and a result returned is that of the semantic
\* list alone; likewise with the two exchanged.  When the query embedding is
\* None the call returns the empty result with total 0 and calls neither
\* fetch.
C40_DegradesInsteadOfFailing ==
  /\ hybrid_resp.status = "raised" =>
       \/ /\ hybrid_resp.error = "ValueError"
          /\ ~ValidParams(hybrid_resp.req.top_n, hybrid_resp.req.initial_k)
       \/ /\ hybrid_resp.error = "ZeroDivisionError"
          /\ ZeroDenominator
  /\ hybrid_resp.status # "none" /\ hybrid_resp.bm25 = FetchRaised =>
       /\ hybrid_resp.semantic # NotFetched
       /\ hybrid_resp.status = "ok" => ResultIsListAlone(FoundSemantic)
  /\ hybrid_resp.status # "none" /\ hybrid_resp.semantic = FetchRaised =>
       /\ hybrid_resp.bm25 # NotFetched
       /\ hybrid_resp.status = "ok" => ResultIsListAlone(FoundBm25)
  /\ hybrid_resp.status # "none" /\ hybrid_resp.query_embedding = "none" =>
       /\ hybrid_resp.status = "ok"
       /\ hybrid_resp.results = <<>>
       /\ hybrid_resp.total = 0
       /\ hybrid_resp.bm25 = NotFetched
       /\ hybrid_resp.semantic = NotFetched

\* C40 witness: the BM25 fetch raised, the semantic fetch returned two
\* candidates, and the call returned them.
C40_Witness ==
  /\ hybrid_resp.status = "ok"
  /\ hybrid_resp.bm25 = FetchRaised
  /\ Len(FoundSemantic) = 2
  /\ Len(hybrid_resp.results) = 2

\* The call with no embedding has returned.
C40_NoEmbeddingSeen ==
  hybrid_resp.status = "ok" /\ hybrid_resp.query_embedding = "none"

====
